---- MODULE Spec2Model ----
(***************************************************************************)
(* mth308lib command-line front end (src/cli.py) together with the         *)
(* numerical core it drives (package mth308: root finders, quadrature      *)
(* rules, ODE steppers).                                                   *)
(*                                                                         *)
(* Numbers.  Python floats are IEEE binary64, round to nearest, ties to    *)
(* even.  The model keeps that arithmetic and shrinks the format: a number *)
(* is an integer count of 1/Unit, representable when its magnitude fits a  *)
(* significand of Prec bits; every operation computes the exact result and *)
(* rounds it with Fl.  Numbers below 1/Unit round like subnormals.         *)
(*                                                                         *)
(* Optional values (argparse leaves an option that was not given at None)  *)
(* are sequences: None is <<>>, a given value v is <<v>>.                  *)
(***************************************************************************)
EXTENDS Integers, Sequences, FiniteSets, TLC

\* ------------------------------------------------------------------ bounds
Prec == 4
ExpMin == 4
MaxIterLib == 3
MaxSteps == 3
MaxN == 4

Unit == 2 ^ ExpMin

\* ------------------------------------------------------- float arithmetic
Abs(n) == IF n < 0 THEN -n ELSE n

Sgn(n) == IF n > 0 THEN 1 ELSE IF n < 0 THEN -1 ELSE 0

\* Spacing of the representable numbers around an integer magnitude q.
RECURSIVE Quantum(_)
Quantum(q) == IF q < 2 ^ Prec THEN 1 ELSE 2 * Quantum(q \div 2)

\* n/d (n >= 0, d > 0) rounded to the nearest integer, ties to even.
RoundHalfEven(n, d) ==
  LET q == n \div d
      r == n % d
  IN  IF 2 * r < d THEN q
      ELSE IF 2 * r > d THEN q + 1
      ELSE IF q % 2 = 0 THEN q ELSE q + 1

\* The representable number nearest to the rational n/d (d > 0).
Fl(n, d) ==
  LET m == Abs(n)
      u == Quantum(m \div d)
  IN  Sgn(n) * u * RoundHalfEven(m, d * u)

FAdd(a, b) == Fl(a + b, 1)
FSub(a, b) == Fl(a - b, 1)
FMul(a, b) == Fl(a * b, Unit)
\* a / b for b # 0
FDiv(a, b) == IF b > 0 THEN Fl(a * Unit, b) ELSE Fl(-(a * Unit), -b)
\* a / k for an integer literal k > 0
FDivInt(a, k) == Fl(a, k)
\* k * a for an integer literal k
FMulInt(k, a) == Fl(k * a, 1)
FAbs(a) == Abs(a)
Representable(v) == Fl(v, 1) = v
\* float("p/q") of a decimal literal: the nearest representable number
ParseFloat(p, q) == Fl(p * Unit, q)

None == <<>>
Some(v) == <<v>>
IsNone(o) == o = <<>>
Val(o) == o[1]

\* ------------------------------------------------- expressions (formulas)
(* A formula string is modelled by its syntax tree, the result of Python's *)
(* parser; a string the parser rejects is the tree <<"SyntaxError">>.      *)
Name(n) == <<"Name", n>>
Num(k) == <<"Num", k>>
BinOp(op, l, r) == <<"BinOp", op, l, r>>
Attr(v, a) == <<"Attr", v, a>>
Call(f, args) == <<"Call", f, args>>
Lambda(body) == <<"Lambda", body>>
Malformed == <<"SyntaxError">>

\* s1 followed by the names of s2 it does not hold yet
RECURSIVE Merge(_, _)
Merge(s1, s2) ==
  IF s2 = <<>> THEN s1
  ELSE IF \E i \in 1..Len(s1) : s1[i] = Head(s2)
       THEN Merge(s1, Tail(s2))
       ELSE Merge(Append(s1, Head(s2)), Tail(s2))

\* code.co_names of the code object compile(expr, "<expr>", "eval") returns:
\* the global and attribute names its own bytecode uses, in order of first
\* use.  A lambda body is a code object of its own (a constant of the outer
\* one), so its names are not among them.
RECURSIVE CoNames(_)
CoNames(t) ==
  CASE t[1] = "Name" -> <<t[2]>>
    [] t[1] = "Num" -> <<>>
    [] t[1] = "BinOp" -> Merge(CoNames(t[3]), CoNames(t[4]))
    [] t[1] = "Attr" -> Merge(CoNames(t[2]), <<t[3]>>)
    [] t[1] = "Call" ->
         IF t[3] = <<>> THEN CoNames(t[2])
         ELSE Merge(CoNames(t[2]), CoNames(t[3][1]))
    [] t[1] = "Lambda" -> <<>>
    [] OTHER -> <<>>

\* Every identifier the expression reads as a variable or function name, in
\* whatever scope (attribute names are not identifiers of a namespace).
RECURSIVE Identifiers(_)
Identifiers(t) ==
  CASE t[1] = "Name" -> {t[2]}
    [] t[1] = "Num" -> {}
    [] t[1] = "BinOp" -> Identifiers(t[3]) \cup Identifiers(t[4])
    [] t[1] = "Attr" -> Identifiers(t[2])
    [] t[1] = "Call" ->
         IF t[3] = <<>> THEN Identifiers(t[2])
         ELSE Identifiers(t[2]) \cup Identifiers(t[3][1])
    [] t[1] = "Lambda" -> Identifiers(t[2])
    [] OTHER -> {}

\* Names eval() finds in the builtins it adds to the globals it is given.
Builtins == {"abs"}
\* Attributes of module math used by the formulas of the model.
MathAttrs == {"fabs"}

Ok(v) == [exc |-> "none", v |-> v]
Raise(e) == [exc |-> e, v |-> 0]

\* eval(code, globals): the value of tree t under the bound variables env.
RECURSIVE EvalTree(_, _)
EvalTree(t, env) ==
  CASE t[1] = "Name" ->
         IF t[2] \in DOMAIN env THEN Ok(env[t[2]])
         ELSE IF t[2] \in Builtins \cup {"math"} THEN Raise("TypeError")
         ELSE Raise("NameError")
    [] t[1] = "Num" -> Ok(t[2] * Unit)
    [] t[1] = "BinOp" ->
         LET l == EvalTree(t[3], env)
             r == EvalTree(t[4], env)
         IN  IF l.exc # "none" THEN l
             ELSE IF r.exc # "none" THEN r
             ELSE IF t[2] = "+" THEN Ok(FAdd(l.v, r.v))
             ELSE IF t[2] = "-" THEN Ok(FSub(l.v, r.v))
             ELSE Ok(FMul(l.v, r.v))
    [] t[1] = "Call" ->
         IF t[2][1] = "Lambda"
         THEN EvalTree(t[2][2], env)
         ELSE IF t[2] = Name("abs") \/ t[2] = Attr(Name("math"), "fabs")
         THEN LET a == EvalTree(t[3][1], env)
              IN  IF a.exc # "none" THEN a ELSE Ok(FAbs(a.v))
         ELSE IF t[2][1] = "Attr" THEN Raise("AttributeError")
         ELSE Raise("NameError")
    [] OTHER -> Raise("TypeError")


\* --------------------------------------------------------- adapter (cli.py)
\* allowed_names = {"math": math, **kwargs}: module math plus the bound variables
allowed_names(kwargs) == {"math"} \cup DOMAIN kwargs

\* The first name of code.co_names that is not allowed, <<>> when all are.
FirstDisallowed(names, allowed) ==
  LET bad == {i \in 1..Len(names) : names[i] \notin allowed}
  IN  IF bad = {} THEN <<>>
      ELSE <<names[CHOOSE i \in bad : \A j \in bad : i <= j]>>

\* _safe_eval(expr, **kwargs): compile, screen co_names, eval.  The result
\* records the exception raised ("none" for a value), the name a ValueError
\* reports, and whether eval() was reached.
_safe_eval(expr, kwargs) ==
  IF expr = Malformed
  THEN [exc |-> "SyntaxError", name |-> "", evaluated |-> FALSE, v |-> 0]
  ELSE LET bad == FirstDisallowed(CoNames(expr), allowed_names(kwargs))
       IN  IF bad # <<>>
           THEN [exc |-> "ValueError", name |-> bad[1], evaluated |-> FALSE, v |-> 0]
           ELSE LET r == EvalTree(expr, kwargs)
                IN  [exc |-> r.exc, name |-> "", evaluated |-> TRUE, v |-> r.v]

\* _parse_f_of_x(expr) returns lambda x: _safe_eval(expr, x=x): nothing is
\* compiled or screened until the callable is called.  The callable is the
\* expression it closes over; calling it is CallF1.
_parse_f_of_x(expr) == [expr |-> expr, arity |-> 1]
_parse_f_of_x_y(expr) == [expr |-> expr, arity |-> 2]
CallF1(f, x) == _safe_eval(f.expr, [x |-> x])
CallF2(f, x, y) == _safe_eval(f.expr, [x |-> x, y |-> y])

\* ------------------------------------------------------ formulas of the model
SqMinus2 == BinOp("-", BinOp("*", Name("x"), Name("x")), Num(2))
XMinus1 == BinOp("-", Name("x"), Num(1))
SqPlus1 == BinOp("+", BinOp("*", Name("x"), Name("x")), Num(1))
Square == BinOp("*", Name("x"), Name("x"))
MathFabs == Call(Attr(Name("math"), "fabs"), <<Name("x")>>)
BuiltinAbs == Call(Name("abs"), <<Name("x")>>)
LambdaAbs == Call(Lambda(Call(Name("abs"), <<Name("x")>>)), <<>>)
XPlusY == BinOp("+", Name("x"), Name("y"))
JustY == Name("y")

XExprs == {SqMinus2, XMinus1, SqPlus1, Square, MathFabs, BuiltinAbs, LambdaAbs, Malformed}
XYExprs == {XPlusY, JustY, MathFabs, LambdaAbs, Malformed}

\* ---------------------------------------------------- parser (_build_parser)
DefaultTol == 1
DefaultMaxIter == 100
DefaultN == 100
DefaultSteps == 10
DefaultH == ParseFloat(1, 10)

RootChoices == {"bisection", "regula_falsi", "modified_regula_falsi", "newton", "secant"}
IntegrateChoices == {"trapezoidal", "simpsons"}
OdeChoices == {"euler", "rk4"}

OrDefault(o, d) == IF IsNone(o) THEN Some(d) ELSE o

\* A command line: the sub-command and the option values given (None: not given).
Line(command, method, formula, a, b, x0, x1, y0, tol, max_iter, n, h, steps) ==
  [command |-> command, method |-> method, formula |-> formula, a |-> a, b |-> b,
   x0 |-> x0, x1 |-> x1, y0 |-> y0, tol |-> tol, max_iter |-> max_iter, n |-> n,
   h |-> h, steps |-> steps]

\* Whether parse_args rejects the line: a required option is missing or
\* --method is not among the choices (argparse prints usage and exits 2).
ParseError(cl) ==
  CASE cl.command = "root" ->
         IsNone(cl.method) \/ IsNone(cl.formula) \/ Val(cl.method) \notin RootChoices
    [] cl.command = "integrate" ->
         \/ IsNone(cl.method) \/ IsNone(cl.formula) \/ IsNone(cl.a) \/ IsNone(cl.b)
         \/ Val(cl.method) \notin IntegrateChoices
    [] cl.command = "ode" ->
         \/ IsNone(cl.method) \/ IsNone(cl.formula) \/ IsNone(cl.x0) \/ IsNone(cl.y0)
         \/ Val(cl.method) \notin OdeChoices

\* The Namespace parse_args returns.  Attribute func is first the handler
\* set_defaults gives; on the root sub-command the option --func has the same
\* destination and its string replaces the handler.  Attributes a sub-parser
\* does not define are None here.
Namespace(cl) ==
  CASE cl.command = "root" ->
         [command |-> "root", method |-> Val(cl.method),
          func |-> <<"str", Val(cl.formula)>>,
          expr |-> None, ode |-> None,
          a |-> cl.a, b |-> cl.b, x0 |-> cl.x0, x1 |-> cl.x1, y0 |-> None,
          tol |-> OrDefault(cl.tol, DefaultTol),
          max_iter |-> OrDefault(cl.max_iter, DefaultMaxIter),
          n |-> None, h |-> None, steps |-> None]
    [] cl.command = "integrate" ->
         [command |-> "integrate", method |-> Val(cl.method),
          func |-> <<"callable", "_cmd_integrate">>,
          expr |-> cl.formula, ode |-> None,
          a |-> cl.a, b |-> cl.b, x0 |-> None, x1 |-> None, y0 |-> None,
          tol |-> None, max_iter |-> None,
          n |-> OrDefault(cl.n, DefaultN), h |-> None, steps |-> None]
    [] cl.command = "ode" ->
         [command |-> "ode", method |-> Val(cl.method),
          func |-> <<"callable", "_cmd_ode">>,
          expr |-> None, ode |-> cl.formula,
          a |-> None, b |-> None, x0 |-> cl.x0, x1 |-> None, y0 |-> cl.y0,
          tol |-> None, max_iter |-> None, n |-> None,
          h |-> OrDefault(cl.h, DefaultH),
          steps |-> OrDefault(cl.steps, DefaultSteps)]


\* ------------------------------------------------ numerical core (mth308)
(* An algorithm runs on an invocation record c: its name, the callable f   *)
(* and the arguments as the caller passed them (Options).  Its locals are  *)
(* the record s.  A start or a step yields what the run does next: go on   *)
(* with new locals, return (root, iterations, converged), or raise.        *)
St0 ==
  [a |-> 0, b |-> 0, fa |-> 0, fb |-> 0, x |-> 0, xp |-> 0, it |-> 0, side |-> 0,
   pa |-> 0, pb |-> 0, exact |-> TRUE, met |-> FALSE, evals |-> 0,
   xs |-> <<>>, ys |-> <<>>]

NoExc == [type |-> "none", why |-> "none"]
Exc(type, why) == [type |-> type, why |-> why]
\* An exception of the callable passes through the algorithm unchanged.
AdapterExc(r) == Exc(r.exc, IF r.evaluated THEN "eval" ELSE "adapter")

Cont(s) == [kind |-> "cont", st |-> s, exc |-> NoExc, root |-> 0, ok |-> FALSE]
Ret(s, root, ok) == [kind |-> "ret", st |-> s, exc |-> NoExc, root |-> root, ok |-> ok]
Fail(s, e) == [kind |-> "raise", st |-> s, exc |-> e, root |-> 0, ok |-> FALSE]

Evals(s, k) == [s EXCEPT !.evals = @ + k]

\* --- bracketing methods: the shared precondition f(a)*f(b) <= 0
NotBracket(fa, fb) == Sgn(fa) * Sgn(fb) > 0

BracketStart(c) ==
  LET a == Val(c.a)
      b == Val(c.b)
      fa == CallF1(c.f, a)
      fb == CallF1(c.f, b)
  IN  IF fa.exc # "none" THEN Fail(Evals(St0, 1), AdapterExc(fa))
      ELSE IF NotBracket(fa.v, fb.v)
           THEN Fail(Evals(St0, 2), Exc("ValueError", "bracket"))
           ELSE Cont([St0 EXCEPT !.a = a, !.b = b, !.fa = fa.v, !.fb = fb.v,
                                 !.x = a, !.pa = a, !.pb = b, !.evals = 2])

\* One more iteration done on locals s, leaving bracket [a, b] with values fa, fb.
Bracketed(s, a, fa, b, fb, x) ==
  [s EXCEPT !.a = a, !.fa = fa, !.b = b, !.fb = fb, !.x = x, !.it = @ + 1,
            !.pa = s.a, !.pb = s.b, !.evals = @ + 1]

\* A bisection that keeps the half without the sign change: the midpoint
\* replaces the endpoint whose sign f(m) does not share.
BisectionStepWrongEnd(c, s) ==
  LET tol == Val(c.tol)
      m == FDivInt(FAdd(s.a, s.b), 2)
      fm == CallF1(c.f, m)
      half == FDivInt(FSub(s.b, s.a), 2)
  IN  IF fm.exc # "none" THEN Fail(Evals(s, 1), AdapterExc(fm))
      ELSE IF FAbs(fm.v) < tol \/ half < tol
           THEN Ret([s EXCEPT !.x = m, !.it = @ + 1, !.met = TRUE, !.evals = @ + 1],
                    m, TRUE)
           ELSE IF Sgn(fm.v) = Sgn(s.fa)
                THEN Cont(Bracketed(s, s.a, s.fa, m, fm.v, m))
                ELSE Cont(Bracketed(s, m, fm.v, s.b, s.fb, m))

\* bisection_method: midpoint m = (a+b)/2; converged when |f(m)| < tol or
\* (b-a)/2 < tol; otherwise m replaces the endpoint whose sign f(m) shares.
BisectionStep(c, s) ==
  LET tol == Val(c.tol)
      m == FDivInt(FAdd(s.a, s.b), 2)
      fm == CallF1(c.f, m)
      half == FDivInt(FSub(s.b, s.a), 2)
      s1 == [s EXCEPT !.exact = @ /\ 2 * m = s.a + s.b /\ 2 * half = s.b - s.a]
  IN  IF fm.exc # "none" THEN Fail(Evals(s, 1), AdapterExc(fm))
      ELSE IF FAbs(fm.v) < tol \/ half < tol
           THEN Ret([s1 EXCEPT !.x = m, !.it = @ + 1, !.met = TRUE, !.evals = @ + 1],
                    m, TRUE)
           ELSE IF Sgn(fm.v) = Sgn(s.fa)
                THEN Cont(Bracketed(s1, m, fm.v, s.b, s.fb, m))
                ELSE Cont(Bracketed(s1, s.a, s.fa, m, fm.v, m))

\* regula_falsi: c = b - f(b)*(b-a)/(f(b)-f(a)); c replaces the endpoint of
\* matching sign; converged when |f(c)| < tol.
FalsePoint(s) == FSub(s.b, FDiv(FMul(s.fb, FSub(s.b, s.a)), FSub(s.fb, s.fa)))

RegulaFalsiStep(c, s) ==
  LET tol == Val(c.tol)
      x == FalsePoint(s)
      fx == CallF1(c.f, x)
  IN  IF FSub(s.fb, s.fa) = 0 THEN Fail(s, Exc("ZeroDivisionError", "denominator"))
      ELSE IF fx.exc # "none" THEN Fail(Evals(s, 1), AdapterExc(fx))
      ELSE IF FAbs(fx.v) < tol
           THEN Ret([s EXCEPT !.x = x, !.it = @ + 1, !.met = TRUE, !.evals = @ + 1],
                    x, TRUE)
           ELSE IF Sgn(fx.v) = Sgn(s.fa)
                THEN Cont(Bracketed(s, x, fx.v, s.b, s.fb, x))
                ELSE Cont(Bracketed(s, s.a, s.fa, x, fx.v, x))

\* modified_regula_falsi: the same update; an endpoint kept for the second
\* iteration in a row has its function value halved (Illinois).  side is
\* the endpoint kept by the last iteration: -1 for a, 1 for b, 0 at the start.
ModifiedRegulaFalsiStep(c, s) ==
  LET tol == Val(c.tol)
      x == FalsePoint(s)
      fx == CallF1(c.f, x)
  IN  IF FSub(s.fb, s.fa) = 0 THEN Fail(s, Exc("ZeroDivisionError", "denominator"))
      ELSE IF fx.exc # "none" THEN Fail(Evals(s, 1), AdapterExc(fx))
      ELSE IF FAbs(fx.v) < tol
           THEN Ret([s EXCEPT !.x = x, !.it = @ + 1, !.met = TRUE, !.evals = @ + 1],
                    x, TRUE)
           ELSE IF Sgn(fx.v) = Sgn(s.fa)
                THEN Cont([Bracketed(s, x, fx.v, s.b,
                                     IF s.side = 1 THEN FDivInt(s.fb, 2) ELSE s.fb, x)
                             EXCEPT !.side = 1])
                ELSE Cont([Bracketed(s, s.a,
                                     IF s.side = -1 THEN FDivInt(s.fa, 2) ELSE s.fa,
                                     x, fx.v, x)
                             EXCEPT !.side = -1])

\* --- open methods
\* Step of the central difference newton_raphson takes when no derivative is given.
DerivStep == Unit \div 4

NumDeriv(fp, fm) == FDiv(FSub(fp, fm), 2 * DerivStep)

OpenStart(c) ==
  IF c.name = "secant_method"
  THEN Cont([St0 EXCEPT !.xp = Val(c.x0), !.x = Val(c.x1)])
  ELSE Cont([St0 EXCEPT !.x = Val(c.x0), !.xp = Val(c.x0)])

Iterated(s, x, k) ==
  [s EXCEPT !.x = x, !.xp = s.x, !.it = @ + 1, !.evals = @ + k]

\* newton_raphson: x' = x - f(x)/f'(x); converged when |x' - x| < tol; a
\* zero derivative is signalled.
NewtonStep(c, s) ==
  LET tol == Val(c.tol)
      fx == CallF1(c.f, s.x)
      fp == CallF1(c.f, FAdd(s.x, DerivStep))
      fm == CallF1(c.f, FSub(s.x, DerivStep))
      df == NumDeriv(fp.v, fm.v)
      xn == FSub(s.x, FDiv(fx.v, df))
  IN  IF fx.exc # "none" THEN Fail(Evals(s, 1), AdapterExc(fx))
      ELSE IF df = 0 THEN Fail(Evals(s, 3), Exc("ZeroDivisionError", "derivative"))
      ELSE IF FAbs(FSub(xn, s.x)) < tol
           THEN Ret([Iterated(s, xn, 3) EXCEPT !.met = TRUE], xn, TRUE)
           ELSE Cont(Iterated(s, xn, 3))

\* secant_method: x' = x - f(x)*(x - xp)/(f(x) - f(xp)); same stopping rule
\* and the same guard on the denominator.
SecantStep(c, s) ==
  LET tol == Val(c.tol)
      f1 == CallF1(c.f, s.x)
      f0 == CallF1(c.f, s.xp)
      d == FSub(f1.v, f0.v)
      xn == FSub(s.x, FDiv(FMul(f1.v, FSub(s.x, s.xp)), d))
  IN  IF f1.exc # "none" THEN Fail(Evals(s, 1), AdapterExc(f1))
      ELSE IF d = 0 THEN Fail(Evals(s, 2), Exc("ZeroDivisionError", "denominator"))
      ELSE IF FAbs(FSub(xn, s.x)) < tol
           THEN Ret([Iterated(s, xn, 2) EXCEPT !.met = TRUE], xn, TRUE)
           ELSE Cont(Iterated(s, xn, 2))

BracketMethods == {"bisection_method", "regula_falsi", "modified_regula_falsi"}
OpenMethods == {"newton_raphson", "secant_method"}
RootFinders == BracketMethods \cup OpenMethods

\* The arguments an algorithm computes with; None among them is a TypeError
\* at its first arithmetic.
Required(c) ==
  CASE c.name \in BracketMethods -> <<c.a, c.b, c.tol, c.max_iter>>
    [] c.name = "newton_raphson" -> <<c.x0, c.tol, c.max_iter>>
    [] c.name = "secant_method" -> <<c.x0, c.x1, c.tol, c.max_iter>>
    [] c.name \in {"trapezoidal_rule", "simpsons_one_third"} -> <<c.a, c.b, c.n>>
    [] OTHER -> <<c.x0, c.y0, c.h, c.steps>>

HasNone(c) == \E i \in 1..Len(Required(c)) : IsNone(Required(c)[i])

RootStart(c) ==
  IF HasNone(c) THEN Fail(St0, Exc("TypeError", "None"))
  ELSE IF c.name \in BracketMethods THEN BracketStart(c)
  ELSE OpenStart(c)

RootStep(c, s) ==
  CASE c.name = "bisection_method" -> BisectionStep(c, s)
    [] c.name = "regula_falsi" -> RegulaFalsiStep(c, s)
    [] c.name = "modified_regula_falsi" -> ModifiedRegulaFalsiStep(c, s)
    [] c.name = "newton_raphson" -> NewtonStep(c, s)
    [] c.name = "secant_method" -> SecantStep(c, s)

\* An exhausted run that reports success.
RootExhaustedConverged(c, s) == Ret(s, s.x, TRUE)

\* max_iter iterations done without meeting the tolerance: the last iterate
\* is returned with converged = False.
RootExhausted(c, s) == Ret(s, s.x, FALSE)


\* --- quadrature rules
\* f(a + i*h) + f(a + (i+stride)*h) + ... over the nodes i <= hi, 0 when
\* there is none; the terms are added pairwise.
RECURSIVE SumSlice(_, _, _, _, _, _)
SumSlice(f, a, h, first, stride, count) ==
  IF count <= 0 THEN 0
  ELSE IF count = 1 THEN CallF1(f, FAdd(a, FMulInt(first, h))).v
  ELSE LET left == count \div 2
       IN  FAdd(SumSlice(f, a, h, first, stride, left),
                SumSlice(f, a, h, first + left * stride, stride, count - left))

SumNodes(f, a, h, i, hi, stride) ==
  SumSlice(f, a, h, i, stride, IF hi < i THEN 0 ELSE (hi - i) \div stride + 1)

\* trapezoidal_rule: h*(f(x0)/2 + f(x1) + ... + f(x_{n-1}) + f(xn)/2), h = (b-a)/n
TrapezoidalRule(c) ==
  LET a == Val(c.a)
      n == Val(c.n)
      h == FDivInt(FSub(Val(c.b), a), n)
      f0 == CallF1(c.f, a)
      fn == CallF1(c.f, FAdd(a, FMulInt(n, h)))
      inner == FAdd(FDivInt(f0.v, 2), SumNodes(c.f, a, h, 1, n - 1, 1))
  IN  IF f0.exc # "none" THEN Fail(Evals(St0, 1), AdapterExc(f0))
      ELSE Ret(Evals(St0, n + 1), FMul(h, FAdd(inner, FDivInt(fn.v, 2))), TRUE)

\* simpsons_one_third: n must be even;
\* h/3*(f(x0) + 4*sum f(odd) + 2*sum f(even, interior) + f(xn))
SimpsonsOneThird(c) ==
  LET a == Val(c.a)
      n == Val(c.n)
      h == FDivInt(FSub(Val(c.b), a), n)
      f0 == CallF1(c.f, a)
      fn == CallF1(c.f, FAdd(a, FMulInt(n, h)))
      odd == SumNodes(c.f, a, h, 1, n - 1, 2)
      even == SumNodes(c.f, a, h, 2, n - 2, 2)
      total == FAdd(FAdd(FAdd(f0.v, FMulInt(4, odd)), FMulInt(2, even)), fn.v)
  IN  IF n % 2 # 0 THEN Fail(St0, Exc("ValueError", "odd n"))
      ELSE IF f0.exc # "none" THEN Fail(Evals(St0, 1), AdapterExc(f0))
      ELSE Ret(Evals(St0, n + 1), FMul(FDivInt(h, 3), total), TRUE)

Quadratures == {"trapezoidal_rule", "simpsons_one_third"}

Integrate(c) ==
  IF HasNone(c) THEN Fail(St0, Exc("TypeError", "None"))
  ELSE IF c.name = "trapezoidal_rule" THEN TrapezoidalRule(c)
  ELSE SimpsonsOneThird(c)

\* --- ODE steppers
Last(q) == q[Len(q)]

Stepped(s, x, y, k) ==
  [s EXCEPT !.xs = Append(@, x), !.ys = Append(@, y), !.it = @ + 1, !.evals = @ + k]

\* euler_method: y' = y + h*f(x, y), x' = x + h
EulerStep(c, s) ==
  LET h == Val(c.h)
      x == Last(s.xs)
      y == Last(s.ys)
      k == CallF2(c.f, x, y)
  IN  IF k.exc # "none" THEN Fail(Evals(s, 1), AdapterExc(k))
      ELSE Cont(Stepped(s, FAdd(x, h), FAdd(y, FMul(h, k.v)), 1))

\* rk4: the classical four stages, y' = y + h/6*(k1 + 2*k2 + 2*k3 + k4)
RK4Step(c, s) ==
  LET h == Val(c.h)
      x == Last(s.xs)
      y == Last(s.ys)
      xh == FAdd(x, FDivInt(h, 2))
      k1 == CallF2(c.f, x, y)
      k2 == CallF2(c.f, xh, FAdd(y, FDivInt(FMul(h, k1.v), 2)))
      k3 == CallF2(c.f, xh, FAdd(y, FDivInt(FMul(h, k2.v), 2)))
      k4 == CallF2(c.f, FAdd(x, h), FAdd(y, FMul(h, k3.v)))
      sum == FAdd(FAdd(FAdd(k1.v, FMulInt(2, k2.v)), FMulInt(2, k3.v)), k4.v)
  IN  IF k1.exc # "none" THEN Fail(Evals(s, 1), AdapterExc(k1))
      ELSE Cont(Stepped(s, FAdd(x, h), FAdd(y, FMul(FDivInt(h, 6), sum)), 4))

Steppers == {"euler_method", "rk4"}

StepperStart(c) ==
  IF HasNone(c) THEN Fail(St0, Exc("TypeError", "None"))
  ELSE Cont([St0 EXCEPT !.xs = <<Val(c.x0)>>, !.ys = <<Val(c.y0)>>])

StepperStep(c, s) == IF c.name = "euler_method" THEN EulerStep(c, s) ELSE RK4Step(c, s)

\* ------------------------------------------------------------ presentation
\* A pairing that loses the last sample.
ZipDropLast(xs, ys) ==
  [i \in 1..((IF Len(xs) < Len(ys) THEN Len(xs) ELSE Len(ys)) - 1) |-> <<xs[i], ys[i]>>]

\* zip(xs, ys): pairs up to the shorter of the two
Zip(xs, ys) ==
  [i \in 1..(IF Len(xs) < Len(ys) THEN Len(xs) ELSE Len(ys)) |-> <<xs[i], ys[i]>>]

\* format(v, ".6g"): v to six significant decimal digits, trailing zeros
\* dropped; the text is <<sign, digits, k>>, reading sign * digits / 10^k.
RECURSIVE Scale10(_, _)
Scale10(n, k) == IF n * 10 ^ k >= 100000 * Unit THEN k ELSE Scale10(n, k + 1)

RECURSIVE Strip(_, _)
Strip(d, k) == IF k > 0 /\ d % 10 = 0 THEN Strip(d \div 10, k - 1) ELSE <<d, k>>

FormatG6(v) ==
  IF v = 0 THEN <<0, 0, 0>>
  ELSE LET k == Scale10(Abs(v), 0)
           t == Strip(RoundHalfEven(Abs(v) * 10 ^ k, Unit), k)
       IN  <<Sgn(v), t[1], t[2]>>

\* print(f"Root: {root}  |  iterations: {it}  |  converged: {ok}")
RootLine(r) == [kind |-> "Root", root |-> r.root, it |-> r.it, ok |-> r.ok]
\* print(f"Integral ~ {res}")
IntegralLine(r) == [kind |-> "Integral", value |-> r.root]
\* print(f"x = {x:.6g}\ty = {y:.6g}") for each pair
SampleLines(xs, ys) ==
  LET z == Zip(xs, ys)
  IN  [i \in 1..Len(z) |-> [kind |-> "Sample", x |-> FormatG6(z[i][1]), y |-> FormatG6(z[i][2])]]


\* ------------------------------------------------------------------- state
VARIABLES
  entry,    \* how the run was started: "script" (the installed command on the
            \* file as shipped), "main" (main(argv)), "handler" (a _cmd_*
            \* function called on a parsed Namespace), "library" (an algorithm
            \* of the core called directly)
  argv,     \* the command line given to main
  args,     \* the Namespace parse_args returned
  pc,       \* where the run stands
  call,     \* the algorithm invocation in progress or last made
  calls,    \* names of the algorithms invoked so far, in order
  st,       \* locals of the running algorithm
  res,      \* what the algorithm returned
  exc,      \* the exception raised and not yet handled
  stdout,   \* lines printed to standard output
  stderr,   \* lines printed to standard error
  status    \* exit status of the process, None while it runs

vars == <<entry, argv, args, pc, call, calls, st, res, exc, stdout, stderr, status>>

NoLine == Line("none", None, None, None, None, None, None, None, None, None, None, None, None)

NoArgs ==
  [command |-> "none", method |-> "none", func |-> <<"none", "none">>,
   expr |-> None, ode |-> None, a |-> None, b |-> None, x0 |-> None, x1 |-> None,
   y0 |-> None, tol |-> None, max_iter |-> None, n |-> None, h |-> None, steps |-> None]

Invocation(name, f, a, b, x0, x1, y0, tol, max_iter, n, h, steps) ==
  [name |-> name, f |-> f, a |-> a, b |-> b, x0 |-> x0, x1 |-> x1, y0 |-> y0,
   tol |-> tol, max_iter |-> max_iter, n |-> n, h |-> h, steps |-> steps]

NoCall ==
  Invocation("none", _parse_f_of_x(Malformed), None, None, None, None, None, None,
             None, None, None, None)

NoRes == [kind |-> "none", root |-> 0, it |-> 0, ok |-> FALSE]

\* ------------------------------------------------------ inputs of the model
RootLines ==
  {Line("root", Some(m), f, br[1], br[2], g[1], g[2], None, t, mi, None, None, None) :
     m \in RootChoices \cup {"brent"},
     f \in {Some(SqMinus2), Some(SqPlus1), None},
     br \in {<<None, None>>, <<Some(0), Some(2 * Unit)>>},
     g \in {<<None, None>>, <<Some(Unit), None>>, <<Some(Unit), Some(2 * Unit)>>},
     t \in {None, Some(Unit \div 4)},
     mi \in {None, Some(2)}}

IntegrateLines ==
  {Line("integrate", Some(m), f, Some(0), b, None, None, None, None, None, n, None, None) :
     m \in IntegrateChoices \cup {"romberg"},
     f \in {Some(e) : e \in XExprs} \cup {None},
     b \in {Some(Unit), None},
     n \in {None} \cup {Some(k) : k \in 1..3}}

OdeLines ==
  {Line("ode", Some(m), f, None, None, x0, None, y0, None, None, None, h, k) :
     m \in OdeChoices \cup {"heun"},
     f \in {Some(e) : e \in XYExprs} \cup {None},
     x0 \in {Some(0), Some(Unit)},
     y0 \in {Some(Unit), None},
     h \in {None, Some(5)},
     k \in {None, Some(0), Some(2)}}

Lines == RootLines \cup IntegrateLines \cup OdeLines

\* Namespaces a handler is called on directly: those the parser produces, and
\* the same with a method the handler does not know.
HandlerArgs ==
  LET parsed == {Namespace(cl) : cl \in {l \in Lines : ~ParseError(l)}}
  IN  parsed \cup {[ns EXCEPT !.method = "other"] : ns \in parsed}

\* The two neighbouring numbers that enclose the square root of 2.
Sqrt2Below ==
  CHOOSE v \in Unit..(2 * Unit) :
    /\ Representable(v) /\ v * v < 2 * Unit * Unit
    /\ \A w \in (v + 1)..(2 * Unit) : Representable(w) => w * w > 2 * Unit * Unit

Sqrt2Above ==
  CHOOSE w \in Unit..(2 * Unit) :
    /\ Representable(w) /\ w > Sqrt2Below
    /\ \A u \in (Sqrt2Below + 1)..(w - 1) : ~Representable(u)

LibFns == {SqMinus2, XMinus1, SqPlus1, Square, LambdaAbs, Malformed}
LibTols == {1, Unit \div 4, Unit}

LibraryCalls ==
  {Invocation(m, _parse_f_of_x(f), Some(a), Some(b), None, None, None, Some(t),
              Some(mi), None, None, None) :
     m \in BracketMethods, f \in LibFns, a \in {0, 1, Unit},
     b \in {Unit, 2 * Unit, 3 * Unit}, t \in LibTols, mi \in 1..MaxIterLib}
  \cup
  {Invocation("bisection_method", _parse_f_of_x(SqMinus2), Some(Sqrt2Below),
              Some(Sqrt2Above), None, None, None, Some(t), Some(mi), None, None, None) :
     t \in LibTols, mi \in 1..MaxIterLib}
  \cup
  {Invocation("newton_raphson", _parse_f_of_x(f), None, None, Some(x0), None, None,
              Some(t), Some(mi), None, None, None) :
     f \in LibFns, x0 \in {0, 1, Unit, 2 * Unit}, t \in LibTols, mi \in 1..MaxIterLib}
  \cup
  {Invocation("secant_method", _parse_f_of_x(f), None, None, Some(x0), Some(x1), None,
              Some(t), Some(mi), None, None, None) :
     f \in LibFns, x0 \in {0, 1, Unit}, x1 \in {Unit, 2 * Unit, 3 * Unit},
     t \in LibTols, mi \in 1..MaxIterLib}
  \cup
  {Invocation(m, _parse_f_of_x(f), Some(a), Some(b), None, None, None, None, None,
              Some(n), None, None) :
     m \in Quadratures, f \in LibFns, a \in {0, Unit}, b \in {Unit, 2 * Unit},
     n \in 1..MaxN}
  \cup
  {Invocation(m, _parse_f_of_x_y(f), None, None, Some(x0), None, Some(y0), None, None,
              None, Some(h), Some(k)) :
     m \in Steppers, f \in XYExprs, x0 \in {0, Unit}, y0 \in {Unit},
     h \in {2, 5, Unit \div 2}, k \in 0..MaxSteps}

Start(e, line, ns, c, at) ==
  /\ entry = e
  /\ argv = line
  /\ args = ns
  /\ call = c
  /\ pc = at
  /\ calls = <<>>
  /\ st = St0
  /\ res = NoRes
  /\ exc = NoExc
  /\ stdout = <<>>
  /\ stderr = <<>>
  /\ status = None

Init ==
  \/ \E l \in {l \in Lines : IsNone(l.tol) /\ IsNone(l.h)} :
       Start("script", l, NoArgs, NoCall, "boot")
  \/ \E l \in Lines : Start("main", l, NoArgs, NoCall, "parse")
  \/ \E ns \in HandlerArgs : Start("handler", NoLine, ns, NoCall, "cmd")
  \/ \E c \in LibraryCalls : Start("library", NoLine, NoArgs, c, "alg_start")

\* ----------------------------------------------------------------- actions
\* The installed command imports module cli.  The string opened by three
\* quotes in the epilog of _build_parser is never closed, so compiling the
\* file as shipped ends in a SyntaxError: traceback on stderr, status 1.
CompileModule ==
  /\ entry = "script" /\ pc = "boot"
  /\ stderr' = Append(stderr, [kind |-> "Traceback", exc |-> Exc("SyntaxError", "cli.py")])
  /\ status' = Some(1)
  /\ pc' = "exit"
  /\ UNCHANGED <<entry, argv, args, call, calls, st, res, exc, stdout>>

\* main: args = parser.parse_args(argv).  A rejected line ends the process
\* inside argparse (usage on stderr, status 2), outside main's try.
ParseArgs ==
  /\ entry = "main" /\ pc = "parse"
  /\ IF ParseError(argv)
     THEN /\ stderr' = Append(stderr, [kind |-> "usage", exc |-> Exc("SystemExit", "argparse")])
          /\ status' = Some(2)
          /\ pc' = "exit"
          /\ args' = args
     ELSE /\ args' = Namespace(argv)
          /\ pc' = "dispatch"
          /\ UNCHANGED <<stderr, status>>
  /\ UNCHANGED <<entry, argv, call, calls, st, res, exc, stdout>>

\* main: args.func(args) inside try.  Calling a str raises TypeError.
main ==
  /\ entry = "main" /\ pc = "dispatch"
  /\ IF args.func[1] = "callable"
     THEN pc' = "cmd" /\ exc' = exc
     ELSE pc' = "raise" /\ exc' = Exc("TypeError", "'str' object is not callable")
  /\ UNCHANGED <<entry, argv, args, call, calls, st, res, stdout, stderr, status>>

\* An error path that reports the error and exits with status 0.
MainExceptExitZero ==
  /\ entry = "main" /\ pc = "raise"
  /\ stderr' = Append(stderr, [kind |-> "Error", exc |-> exc])
  /\ status' = Some(0)
  /\ pc' = "exit"
  /\ UNCHANGED <<entry, argv, args, call, calls, st, res, exc, stdout>>

\* main: except Exception as exc: print(f"Error: {exc}", file=sys.stderr); sys.exit(1)
MainExcept ==
  /\ entry = "main" /\ pc = "raise"
  /\ stderr' = Append(stderr, [kind |-> "Error", exc |-> exc])
  /\ status' = Some(1)
  /\ pc' = "exit"
  /\ UNCHANGED <<entry, argv, args, call, calls, st, res, exc, stdout>>

\* Nothing catches the exception of a handler or an algorithm called directly:
\* it reaches the caller.
Propagate ==
  /\ entry \in {"handler", "library"} /\ pc = "raise"
  /\ pc' = "exit"
  /\ UNCHANGED <<entry, argv, args, call, calls, st, res, exc, stdout, stderr, status>>

Invoke(c) ==
  /\ call' = c
  /\ calls' = Append(calls, c.name)
  /\ pc' = "alg_start"
  /\ exc' = exc

Unsupported(what) ==
  /\ exc' = Exc("ValueError", what)
  /\ pc' = "raise"
  /\ UNCHANGED <<call, calls>>

\* The algorithm each handler calls for a method name, "" for none.
RootTarget(meth) ==
  CASE meth = "bisection" -> "bisection_method"
    [] meth = "regula_falsi" -> "regula_falsi"
    [] meth = "modified_regula_falsi" -> "modified_regula_falsi"
    [] meth = "newton" -> "newton_raphson"
    [] meth = "secant" -> "secant_method"
    [] OTHER -> ""

\* A dispatch that falls back on the trapezoidal rule.
IntegrateTargetFallback(meth) ==
  CASE meth = "trapezoidal" -> "trapezoidal_rule"
    [] meth = "simpsons" -> "trapezoidal_rule"
    [] OTHER -> ""

IntegrateTarget(meth) ==
  CASE meth = "trapezoidal" -> "trapezoidal_rule"
    [] meth = "simpsons" -> "simpsons_one_third"
    [] OTHER -> ""

OdeTarget(meth) ==
  CASE meth = "euler" -> "euler_method"
    [] meth = "rk4" -> "rk4"
    [] OTHER -> ""

\* _cmd_root up to the call of the root finder: f = _parse_f_of_x(args.func),
\* kwargs = dict(tol=args.tol, max_iter=args.max_iter), then the method's
\* branch with args.a, args.b or args.x0, args.x1 as they are.
_cmd_root ==
  /\ pc = "cmd" /\ args.command = "root"
  /\ LET f == _parse_f_of_x(args.func[2])
         t == RootTarget(args.method)
     IN  IF t \in BracketMethods
         THEN Invoke(Invocation(t, f, args.a, args.b, None, None, None, args.tol,
                                args.max_iter, None, None, None))
         ELSE IF t = "newton_raphson"
         THEN Invoke(Invocation(t, f, None, None, args.x0, None, None, args.tol,
                                args.max_iter, None, None, None))
         ELSE IF t = "secant_method"
         THEN Invoke(Invocation(t, f, None, None, args.x0, args.x1, None, args.tol,
                                args.max_iter, None, None, None))
         ELSE Unsupported("Unsupported root-finding method.")
  /\ UNCHANGED <<entry, argv, args, st, res, stdout, stderr, status>>

\* _cmd_integrate up to the call of the rule
_cmd_integrate ==
  /\ pc = "cmd" /\ args.command = "integrate"
  /\ LET f == _parse_f_of_x(Val(args.expr))
         t == IntegrateTarget(args.method)
     IN  IF t # ""
         THEN Invoke(Invocation(t, f, args.a, args.b, None, None, None, None, None,
                                args.n, None, None))
         ELSE Unsupported("Unsupported integration method.")
  /\ UNCHANGED <<entry, argv, args, st, res, stdout, stderr, status>>

\* _cmd_ode up to the call of the stepper
_cmd_ode ==
  /\ pc = "cmd" /\ args.command = "ode"
  /\ LET f == _parse_f_of_x_y(Val(args.ode))
         t == OdeTarget(args.method)
     IN  IF t # ""
         THEN Invoke(Invocation(t, f, None, None, args.x0, None, args.y0, None, None,
                                None, args.h, args.steps))
         ELSE Unsupported("Unsupported ODE method.")
  /\ UNCHANGED <<entry, argv, args, st, res, stdout, stderr, status>>

\* What a start or step r of the running algorithm leaves behind.  A return
\* goes back to the handler's print, or ends a direct call.
Apply(r) ==
  /\ st' = r.st
  /\ CASE r.kind = "cont" -> pc' = "alg_loop" /\ UNCHANGED <<res, exc>>
       [] r.kind = "ret" ->
            /\ res' = [kind |-> "ret", root |-> r.root, it |-> r.st.it, ok |-> r.ok]
            /\ pc' = IF entry = "library" THEN "exit" ELSE "print"
            /\ exc' = exc
       [] r.kind = "raise" -> pc' = "raise" /\ exc' = r.exc /\ res' = res
  /\ UNCHANGED <<entry, argv, args, call, calls, stdout, stderr, status>>

RootFinderStart ==
  /\ pc = "alg_start" /\ call.name \in RootFinders
  /\ Apply(RootStart(call))

RootFinderIterate ==
  /\ pc = "alg_loop" /\ call.name \in RootFinders
  /\ st.it < Val(call.max_iter)
  /\ Apply(RootStep(call, st))

RootFinderExhaust ==
  /\ pc = "alg_loop" /\ call.name \in RootFinders
  /\ st.it >= Val(call.max_iter)
  /\ Apply(RootExhausted(call, st))

Quadrature ==
  /\ pc = "alg_start" /\ call.name \in Quadratures
  /\ Apply(Integrate(call))

StepperBegin ==
  /\ pc = "alg_start" /\ call.name \in Steppers
  /\ Apply(StepperStart(call))

StepperIterate ==
  /\ pc = "alg_loop" /\ call.name \in Steppers
  /\ st.it < Val(call.steps)
  /\ Apply(StepperStep(call, st))

StepperReturn ==
  /\ pc = "alg_loop" /\ call.name \in Steppers
  /\ st.it >= Val(call.steps)
  /\ Apply(Ret(st, 0, TRUE))

\* The handler's print after the algorithm returned; the handler returns, and
\* under main the process ends with status 0.
PrintLines(lines) ==
  /\ pc = "print"
  /\ stdout' = stdout \o lines
  /\ status' = IF entry = "main" THEN Some(0) ELSE status
  /\ pc' = "exit"
  /\ UNCHANGED <<entry, argv, args, call, calls, st, res, exc, stderr>>

PrintRoot == args.command = "root" /\ PrintLines(<<RootLine(res)>>)

PrintIntegral == args.command = "integrate" /\ PrintLines(<<IntegralLine(res)>>)

PrintSamples == args.command = "ode" /\ PrintLines(SampleLines(st.xs, st.ys))

Next ==
  \/ CompileModule
  \/ ParseArgs
  \/ main
  \/ MainExcept
  \/ Propagate
  \/ _cmd_root
  \/ _cmd_integrate
  \/ _cmd_ode
  \/ RootFinderStart
  \/ RootFinderIterate
  \/ RootFinderExhaust
  \/ Quadrature
  \/ StepperBegin
  \/ StepperIterate
  \/ StepperReturn
  \/ PrintRoot
  \/ PrintIntegral
  \/ PrintSamples

Spec == Init /\ [][Next]_vars


\* ------------------------------------------------------------------ claims
\* The variables f is called with, at values of no consequence: what
\* _safe_eval rejects depends on the expression and the names alone.
Bound(f) == IF f.arity = 1 THEN [x |-> 0] ELSE [x |-> 0, y |-> 0]

\* What the adapter does with the formula of the current invocation.
Adapted == _safe_eval(call.f.expr, Bound(call.f))

\* Attribute names an expression reads, in whatever scope.
RECURSIVE AttrNames(_)
AttrNames(t) ==
  CASE t[1] = "BinOp" -> AttrNames(t[3]) \cup AttrNames(t[4])
    [] t[1] = "Attr" -> AttrNames(t[2]) \cup {t[3]}
    [] t[1] = "Call" ->
         IF t[3] = <<>> THEN AttrNames(t[2])
         ELSE AttrNames(t[2]) \cup AttrNames(t[3][1])
    [] t[1] = "Lambda" -> AttrNames(t[2])
    [] OTHER -> {}

\* The callable of the current invocation has been called at least once.
Called == call.name # "none" /\ st.evals > 0

\* C1: whenever the callable is called on an expression that reads a name
\* outside the allow-list (the bound variables plus math), in whatever scope,
\* _safe_eval raises the "not an allowed identifier" ValueError and does not
\* evaluate the expression.
C1_DisallowedNameRejected ==
  (Called /\ call.f.expr # Malformed
          /\ ~(Identifiers(call.f.expr) \subseteq allowed_names(Bound(call.f))))
    => (Adapted.exc = "ValueError" /\ ~Adapted.evaluated)

\* C2: whenever the callable is called on an expression that reads only the
\* bound variables and functions of module math, _safe_eval returns a value.
C2_MathExpressionAccepted ==
  (Called /\ call.f.expr # Malformed
          /\ Identifiers(call.f.expr) \subseteq allowed_names(Bound(call.f))
          /\ AttrNames(call.f.expr) \subseteq MathAttrs)
    => (Adapted.exc = "none" /\ Adapted.evaluated)

\* C3: under main, an exception raised while the sub-command runs leaves
\* nothing on stdout and ends the process with the error on stderr and
\* status 1; a run that printed a result raised nothing and ends with status 0.
C3_ErrorsReported ==
  entry = "main" =>
    /\ exc # NoExc => stdout = <<>>
    /\ (pc = "exit" /\ exc # NoExc) =>
         (status = Some(1) /\ stderr = <<[kind |-> "Error", exc |-> exc]>>)
    /\ stdout # <<>> => (exc = NoExc /\ stderr = <<>> /\ status = Some(0))

C3_Witness ==
  /\ entry = "main" /\ pc = "exit" /\ args.command = "integrate"
  /\ exc = Exc("ValueError", "odd n") /\ status = Some(1)

\* C4: a sub-command invokes its algorithm only with a formula the adapter
\* has found to compile and to pass the screen of names.
C4_FormulaCheckedBeforeAlgorithm ==
  (entry \in {"main", "handler"} /\ calls # <<>>)
    => Adapted.exc \notin {"SyntaxError", "ValueError"}

\* A call of a root finder has ended (returned or raised).
RootCallEnded == call.name \in RootFinders /\ pc \in {"print", "raise", "exit"}

\* C5 as stated: a root finder started within its precondition whose run
\* never met the tolerance returned
\* normally with converged = False, iterations = max_iter and the last
\* iterate as root.
C5_Original ==
  (entry = "library" /\ RootCallEnded /\ Adapted.exc = "none" /\ ~st.met
     /\ exc # Exc("ValueError", "bracket"))
    => /\ exc = NoExc
       /\ res = [kind |-> "ret", root |-> st.x, it |-> Val(call.max_iter), ok |-> FALSE]

\* C5 amended: no root finder does more than max_iter iterations; a run in
\* which no failure was signalled and the tolerance was never met returned
\* normally with converged = False, iterations = max_iter and the last
\* iterate as root.
C5_NonConvergenceReturned ==
  (call.name \in RootFinders /\ ~HasNone(call)) =>
    /\ st.it <= Val(call.max_iter)
    /\ (RootCallEnded /\ exc = NoExc /\ ~st.met) =>
         res = [kind |-> "ret", root |-> st.x, it |-> Val(call.max_iter), ok |-> FALSE]

C5_Witness ==
  /\ entry = "library" /\ pc = "exit" /\ call.name = "newton_raphson"
  /\ res.kind = "ret" /\ ~res.ok /\ res.it = MaxIterLib

\* The algorithm of the current invocation has run its start.
Started == call.name # "none" /\ ~HasNone(call) /\ pc \in {"alg_loop", "print", "raise", "exit"}

\* C6: a bracketing method started on an interval without a sign change
\* raises the precondition error before its first iteration; Simpson's rule
\* asked for an odd n, directly or through the integrate sub-command, raises
\* the input error before evaluating f; either way there is no result, nothing
\* is printed and no other algorithm is invoked.
C6_PreconditionReported ==
  /\ (Started /\ call.name \in BracketMethods /\ Adapted.exc = "none"
        /\ NotBracket(CallF1(call.f, Val(call.a)).v, CallF1(call.f, Val(call.b)).v))
       => (exc = Exc("ValueError", "bracket") /\ st.it = 0 /\ res = NoRes /\ stdout = <<>>)
  /\ (Started /\ call.name = "simpsons_one_third" /\ Val(call.n) % 2 # 0)
       => (exc = Exc("ValueError", "odd n") /\ st.evals = 0 /\ res = NoRes /\ stdout = <<>>)
  /\ (entry \in {"main", "handler"} /\ args.command = "integrate"
        /\ args.method = "simpsons" /\ pc \in {"print", "raise", "exit"}
        /\ ~IsNone(args.a) /\ ~IsNone(args.b) /\ Val(args.n) % 2 # 0)
       => (calls = <<"simpsons_one_third">> /\ exc = Exc("ValueError", "odd n")
           /\ stdout = <<>>)

C6_Witness ==
  /\ entry = "handler" /\ pc = "exit" /\ args.method = "simpsons"
  /\ Val(args.n) = 3 /\ exc.why = "odd n" /\ calls = <<"simpsons_one_third">>


\* Bisection has done at least one iteration on a bracket of width W0.
BisectionRan == call.name = "bisection_method" /\ ~HasNone(call) /\ st.it >= 1

W0 == Val(call.b) - Val(call.a)

\* C7 as stated: after every iteration of bisection the interval holds a sign
\* change and is exactly half as wide as before the iteration, and the
\* iteration count at return is at most ceil(log2((b-a)/tol)).
C7_Original ==
  (entry = "library" /\ BisectionRan /\ W0 > 0) =>
    /\ ~st.met => (~NotBracket(st.fa, st.fb) /\ 2 * (st.b - st.a) = st.pb - st.pa)
    /\ res.kind = "ret" => (2 ^ (res.it - 1)) * Val(call.tol) < W0

\* C7 amended: after every iteration of bisection the interval holds a sign
\* change of f and is the previous interval with one endpoint replaced by the
\* computed midpoint, so exactly half as wide when the midpoint is exact; the
\* iteration count at return is at most max_iter and, when no midpoint or
\* half-width was rounded, at most max(1, floor(log2((b-a)/tol)) + 1).
C7_BisectionBracket ==
  BisectionRan =>
    /\ st.it <= Val(call.max_iter)
    /\ ~st.met =>
         LET m == FDivInt(FAdd(st.pa, st.pb), 2)
         IN  /\ st.fa = CallF1(call.f, st.a).v /\ st.fb = CallF1(call.f, st.b).v
             /\ ~NotBracket(st.fa, st.fb)
             /\ (st.a = st.pa /\ st.b = m) \/ (st.a = m /\ st.b = st.pb)
             /\ 2 * m = st.pa + st.pb => 2 * (st.b - st.a) = st.pb - st.pa
    /\ (res.kind = "ret" /\ st.exact /\ W0 > 0) =>
         (res.it <= 1 \/ (2 ^ (res.it - 1)) * Val(call.tol) <= W0)

C7_Witness ==
  /\ entry = "library" /\ call.name = "bisection_method" /\ pc = "exit"
  /\ res.kind = "ret" /\ res.it = 3 /\ st.exact /\ W0 > 0
  /\ 2 * (st.b - st.a) = st.pb - st.pa

\* A stepper has returned its two sequences.
StepperReturned == call.name \in Steppers /\ res.kind = "ret"

\* The lines _cmd_ode has printed are the samples, one line each, in order.
SamplesPrinted ==
  (entry # "library" /\ pc = "exit") =>
    /\ Len(stdout) = Val(call.steps) + 1
    /\ \A i \in 1..Len(stdout) :
         stdout[i] = [kind |-> "Sample", x |-> FormatG6(st.xs[i]), y |-> FormatG6(st.ys[i])]

\* C8 as stated: a stepper that returned did exactly `steps` iterations and
\* returned xs and ys of length steps+1 with xs[0] = x0, ys[0] = y0 and
\* xs[i+1] - xs[i] = h for every i, and the CLI printed every sample.
C8_Original ==
  StepperReturned =>
    /\ st.it = Val(call.steps)
    /\ Len(st.xs) = Val(call.steps) + 1 /\ Len(st.ys) = Val(call.steps) + 1
    /\ st.xs[1] = Val(call.x0) /\ st.ys[1] = Val(call.y0)
    /\ \A i \in 1..(Len(st.xs) - 1) : FSub(st.xs[i + 1], st.xs[i]) = Val(call.h)
    /\ SamplesPrinted

\* C8 amended: as stated, except that each abscissa is the floating-point sum
\* of its predecessor and h (xs[i+1] = xs[i] + h as computed), which need not
\* differ from the predecessor by exactly h.
C8_StepperSequences ==
  StepperReturned =>
    /\ st.it = Val(call.steps)
    /\ Len(st.xs) = Val(call.steps) + 1 /\ Len(st.ys) = Val(call.steps) + 1
    /\ st.xs[1] = Val(call.x0) /\ st.ys[1] = Val(call.y0)
    /\ \A i \in 1..(Len(st.xs) - 1) : st.xs[i + 1] = FAdd(st.xs[i], Val(call.h))
    /\ SamplesPrinted

C8_Witness ==
  /\ entry = "main" /\ pc = "exit" /\ call.name = "rk4" /\ res.kind = "ret"
  /\ Val(call.steps) = 2 /\ Len(stdout) = 3
  /\ FSub(st.xs[2], st.xs[1]) # Val(call.h)

\* The algorithm the accepted command line cl names.
Target(cl) ==
  CASE cl.command = "root" -> RootTarget(Val(cl.method))
    [] cl.command = "integrate" -> IntegrateTarget(Val(cl.method))
    [] OTHER -> OdeTarget(Val(cl.method))

\* C9: a run of main on a command line the parser accepts has invoked the
\* algorithm the method names, once, and no other; a root finder got the
\* caller's tol and max_iter, or 1e-8 and 100 when the line gives none.
C9_OneAlgorithmOnce ==
  (entry = "main" /\ pc = "exit" /\ ~ParseError(argv)) =>
    /\ calls = <<Target(argv)>>
    /\ argv.command = "root" =>
         /\ call.tol = OrDefault(argv.tol, DefaultTol)
         /\ call.max_iter = OrDefault(argv.max_iter, DefaultMaxIter)

\* C10: a root finder the root sub-command has invoked was given every
\* starting parameter it requires as a number, never None.
C10_StartingParametersSupplied ==
  (entry \in {"main", "handler"} /\ args.command = "root" /\ calls # <<>>) =>
    \A i \in 1..Len(Required(call)) : ~IsNone(Required(call)[i])

====
